---- MODULE Spec2Model ----
(***************************************************************************)
(* Adversarial game-tree search of adversarialsearch.py: minimax,          *)
(* alpha_beta, alpha_beta_cutoff and general_minimax over the abstract     *)
(* AdversarialSearchProblem interface.  A problem (asp) is a finite game   *)
(* tree; a state is a position in it, named by the path of actions from    *)
(* the start state.  Every search function is an operator that returns its *)
(* value together with a trace of the interface calls it made: the value   *)
(* it returned for every state it was called on (vals), the states it      *)
(* passed to evaluate_state (term) and the states it passed to eval_func   *)
(* (heur).                                                                 *)
(***************************************************************************)
EXTENDS Integers, Sequences, FiniteSets, TLC

\* ---------------------------------------------------------------- bounds
MaxNodes == 5      \* a generated game tree has at most this many states
MaxReward == 2     \* a generated terminal reward for player 0 is in 0..MaxReward
MaxCutoff == 3     \* cutoff_ply is drawn from 1..MaxCutoff

\* ------------------------------------------------------------- constants
NumPlayers == 2    \* minimax assumes a 2-player game
Inf == 1000        \* float('inf'); -Inf is float('-inf')
None == 0          \* the 'no action' value; actions are 1, 2, ...

Players == 0 .. (NumPlayers - 1)
Rewards == 0 .. MaxReward
EvalVals == {0, MaxReward}

Max(a, b) == IF a >= b THEN a ELSE b
Min(a, b) == IF a <= b THEN a ELSE b

\* ------------------------------------------------------ the game (input)
\* A terminal position: reward vector, constant sum k.
Leaf(p, r0, k) ==
  [player |-> p, terminal |-> TRUE,
   reward |-> [q \in Players |-> IF q = 0 THEN r0 ELSE k - r0],
   kids |-> << >>]

\* A non-terminal position: one child per available action, in order.
Inner(p, ks) ==
  [player |-> p, terminal |-> FALSE,
   reward |-> [q \in Players |-> 0],
   kids |-> ks]

\* The game trees by size, built bottom-up.  Entry n of the table holds, for
\* each player p, trees[p]: the game trees with exactly n positions in which
\* p moves at the root, and forests[p]: the non-empty sequences of game
\* trees with n positions in total that can be the children of a position
\* where p moves.  alt: the players alternate; otherwise any player may move
\* at any position.
NextPlayers(p, alt) == IF alt THEN {1 - p} ELSE Players

TreesOfSize(tab, n, p) ==
  IF n = 1 THEN {Leaf(p, r, MaxReward) : r \in Rewards}
  ELSE {Inner(p, ks) : ks \in tab[n - 1].forests[p]}

ForestsOfSize(tab, trees, m, p, alt) ==
  UNION {UNION {{<<t>> \o f : t \in (IF k = m THEN trees[q]
                                     ELSE tab[k].trees[q]),
                 f \in (IF k = m THEN {<< >>} ELSE tab[m - k].forests[p])}
                : q \in NextPlayers(p, alt)}
         : k \in 1 .. m}

RECURSIVE GameTable(_, _, _)
GameTable(tab, max, alt) ==
  IF Len(tab) >= max THEN tab
  ELSE LET n == Len(tab) + 1
           trees == [p \in Players |-> TreesOfSize(tab, n, p)]
           forests == [p \in Players |->
                         ForestsOfSize(tab, trees, n, p, alt)]
       IN GameTable(Append(tab, [trees |-> trees, forests |-> forests]),
                    max, alt)

\* The game trees with exactly k positions, root player q, for k up to one
\* more than the table holds.
TreeSet(tab, k, q) ==
  IF k <= Len(tab) THEN tab[k].trees[q] ELSE TreesOfSize(tab, k, q)

\* t is a game tree with at most max positions: a terminal position, or a
\* position whose first child is a game tree t1 and whose other children
\* are a sequence f of game trees.  tab holds the sizes up to max - 2.
IsGame(t, tab, max, alt) ==
  \E n \in 1 .. max, p \in Players :
    IF n = 1 THEN t \in TreesOfSize(tab, 1, p)
    ELSE \E k \in 1 .. (n - 1), q \in NextPlayers(p, alt) :
           \E t1 \in TreeSet(tab, k, q),
              f \in (IF k = n - 1 THEN {<< >>}
                     ELSE tab[n - 1 - k].forests[p]) :
             t = Inner(p, <<t1>> \o f)

\* The scenario tree: two actions, min nodes with leaves {3, 5} and {1, 9}.
ExampleGame ==
  Inner(0, << Inner(1, << Leaf(0, 3, 10), Leaf(0, 5, 10) >>),
              Inner(1, << Leaf(0, 1, 10), Leaf(0, 9, 10) >>) >>)

MaxSearchNodes == 6 \* size bound of the games searched without a cutoff
MaxGenNodes == 5   \* size bound of the games with an arbitrary turn order

\* Two-player constant-sum games in which the players alternate.
AltTable == GameTable(<< >>, MaxNodes - 2, TRUE)
SearchTable == GameTable(<< >>, MaxSearchNodes - 2, TRUE)
\* Two-player constant-sum games in which any player may move at any state.
GenTable == GameTable(<< >>, MaxGenNodes - 2, FALSE)

RECURSIVE Height(_)
Height(t) ==
  IF t.kids = << >> THEN 0
  ELSE LET hs == {Height(t.kids[i]) : i \in 1 .. Len(t.kids)}
       IN 1 + CHOOSE h \in hs : \A x \in hs : x <= h

RECURSIVE Paths(_)
\* The states of the game rooted at t, as action paths.
Paths(t) ==
  {<< >>} \cup UNION {{<<i>> \o p : p \in Paths(t.kids[i])}
                      : i \in 1 .. Len(t.kids)}

\* The states a search can be handed: those reached by a transition.
States(t) == Paths(t) \ {<< >>}

RECURSIVE NodeAt(_, _)
NodeAt(t, path) ==
  IF path = << >> THEN t ELSE NodeAt(t.kids[Head(path)], Tail(path))

\* ------------------------------------- AdversarialSearchProblem interface
get_start_state(asp) == [path |-> << >>, node |-> asp]
get_available_actions(asp, state) ==
  [i \in 1 .. Len(state.node.kids) |-> i]
transition(asp, state, a) ==
  [path |-> Append(state.path, a), node |-> state.node.kids[a]]
is_terminal_state(asp, state) == state.node.terminal
evaluate_state(asp, state) == state.node.reward
player_to_move(state) == state.node.player

\* ----------------------------------------------------------- call traces
NoTrace == [vals |-> {}, term |-> {}, heur |-> {}]
Join(t1, t2) ==
  [vals |-> t1.vals \cup t2.vals, term |-> t1.term \cup t2.term,
   heur |-> t1.heur \cup t2.heur]
\* a call on state returns v after the calls in tr
Return(state, v, tr) ==
  [v |-> v, tr |-> [tr EXCEPT !.vals = @ \cup {<<state.path, v>>}]]

\* ----------------------------------------------------------------- minimax
\* the terminal branch shared by max_value, min_value and the alpha-beta pair
terminal_value(asp, state) ==
  LET player == player_to_move(get_start_state(asp))
  IN Return(state, evaluate_state(asp, state)[player],
            [NoTrace EXCEPT !.term = {state.path}])

\* the root's test value > result, and two variants of it: a later equal
\* value replaces the best; result starts at 0 instead of -Inf
minimax_better_or_equal(value, result) == value >= result
minimax_better_than_zero(value, result) == value > Max(result, 0)
minimax_better(value, result) == value > result

RECURSIVE max_value(_, _), min_value(_, _), max_loop(_, _, _, _, _),
          min_loop(_, _, _, _, _)
max_value(asp, state) ==
  IF is_terminal_state(asp, state) = TRUE THEN terminal_value(asp, state)
  ELSE max_loop(asp, state, get_available_actions(asp, state), -Inf, NoTrace)

max_loop(asp, state, acts, v, tr) ==
  IF acts = << >> THEN Return(state, v, tr)
  ELSE LET r == min_value(asp, transition(asp, state, Head(acts)))
       IN max_loop(asp, state, Tail(acts), Max(v, r.v), Join(tr, r.tr))

min_value(asp, state) ==
  IF is_terminal_state(asp, state) = TRUE THEN terminal_value(asp, state)
  ELSE min_loop(asp, state, get_available_actions(asp, state), Inf, NoTrace)

min_loop(asp, state, acts, v, tr) ==
  IF acts = << >> THEN Return(state, v, tr)
  ELSE LET r == max_value(asp, transition(asp, state, Head(acts)))
       IN min_loop(asp, state, Tail(acts), Min(v, r.v), Join(tr, r.tr))

RECURSIVE minimax_loop(_, _, _, _, _, _)
minimax_loop(asp, start_state, acts, action, result, tr) ==
  IF acts = << >> THEN [action |-> action, tr |-> tr]
  ELSE LET a == Head(acts)
           r == min_value(asp, transition(asp, start_state, a))
           better == minimax_better(r.v, result)
       IN minimax_loop(asp, start_state, Tail(acts),
                       IF better THEN a ELSE action,
                       IF better THEN r.v ELSE result,
                       Join(tr, r.tr))

\* variant of minimax: a start state without actions is scored
minimax_scoring_start(asp) ==
  LET start_state == get_start_state(asp)
      acts == get_available_actions(asp, start_state)
  IN IF acts = << >>
     THEN [action |-> None, tr |-> max_value(asp, start_state).tr]
     ELSE minimax_loop(asp, start_state, acts, None, -Inf, NoTrace)

minimax(asp) ==
  LET start_state == get_start_state(asp)
  IN minimax_loop(asp, start_state, get_available_actions(asp, start_state),
                  None, -Inf, NoTrace)

\* -------------------------------------------------------------- alpha_beta
\* the cutoff tests of alpha_beta_max and alpha_beta_min
prune_max(v, beta) == v >= beta
\* variant of prune_min: the comparison of alpha_beta_max
prune_min_reversed(v, alpha) == v >= alpha
\* alpha = max(alpha, value) at the root
\* variant: the root never raises alpha
alpha_beta_keep(alpha, value) == alpha
alpha_beta_raise(alpha, value) == Max(alpha, value)
prune_min(v, alpha) == v <= alpha

RECURSIVE alpha_beta_max(_, _, _, _), alpha_beta_min(_, _, _, _),
          alpha_beta_max_loop(_, _, _, _, _, _, _),
          alpha_beta_min_loop(_, _, _, _, _, _, _)
alpha_beta_max(asp, state, alpha, beta) ==
  IF is_terminal_state(asp, state) = TRUE THEN terminal_value(asp, state)
  ELSE alpha_beta_max_loop(asp, state, get_available_actions(asp, state),
                           -Inf, alpha, beta, NoTrace)

alpha_beta_max_loop(asp, state, acts, v0, alpha, beta, tr0) ==
  IF acts = << >> THEN Return(state, v0, tr0)
  ELSE LET r == alpha_beta_min(asp, transition(asp, state, Head(acts)),
                               alpha, beta)
           v == Max(v0, r.v)
           tr == Join(tr0, r.tr)
       IN IF prune_max(v, beta) THEN Return(state, v, tr)
          ELSE alpha_beta_max_loop(asp, state, Tail(acts), v,
                                   Max(alpha, v), beta, tr)

alpha_beta_min(asp, state, alpha, beta) ==
  IF is_terminal_state(asp, state) = TRUE THEN terminal_value(asp, state)
  ELSE alpha_beta_min_loop(asp, state, get_available_actions(asp, state),
                           Inf, alpha, beta, NoTrace)

alpha_beta_min_loop(asp, state, acts, v0, alpha, beta, tr0) ==
  IF acts = << >> THEN Return(state, v0, tr0)
  ELSE LET r == alpha_beta_max(asp, transition(asp, state, Head(acts)),
                               alpha, beta)
           v == Min(v0, r.v)
           tr == Join(tr0, r.tr)
       IN IF prune_min(v, alpha) THEN Return(state, v, tr)
          ELSE alpha_beta_min_loop(asp, state, Tail(acts), v,
                                   alpha, Min(beta, v), tr)

RECURSIVE alpha_beta_loop(_, _, _, _, _, _, _, _)
alpha_beta_loop(asp, start_state, acts, action0, result0, alpha, beta, tr0) ==
  IF acts = << >> THEN [action |-> action0, tr |-> tr0]
  ELSE LET a == Head(acts)
           r == alpha_beta_min(asp, transition(asp, start_state, a),
                               alpha, beta)
           value == r.v
           better == value > result0
           result == IF better THEN value ELSE result0
           action == IF better THEN a ELSE action0
           tr == Join(tr0, r.tr)
       IN IF value >= beta THEN [action |-> action, tr |-> tr]
          ELSE alpha_beta_loop(asp, start_state, Tail(acts), action, result,
                               alpha_beta_raise(alpha, value), beta, tr)

alpha_beta(asp) ==
  LET start_state == get_start_state(asp)
  IN alpha_beta_loop(asp, start_state,
                     get_available_actions(asp, start_state),
                     None, -Inf, -Inf, Inf, NoTrace)

\* ------------------------------------------------------- alpha_beta_cutoff
\* eval_func is a caller-supplied function of the state
eval_func_call(eval_func, state) ==
  Return(state, eval_func[state.path], [NoTrace EXCEPT !.heur = {state.path}])

cutoff_terminal(asp, state, player) ==
  Return(state, evaluate_state(asp, state)[player],
         [NoTrace EXCEPT !.term = {state.path}])

\* the depth test of cutoff_min
\* variants: one ply late; at every ply up to the cutoff
at_cutoff_late(depth, cutoff) == depth = cutoff + 1
at_cutoff_or_before(depth, cutoff) == depth <= cutoff
at_cutoff(depth, cutoff) == depth = cutoff

RECURSIVE cutoff_max(_, _, _, _, _, _, _, _), cutoff_min(_, _, _, _, _, _, _, _),
          cutoff_max_loop(_, _, _, _, _, _, _, _, _, _, _),
          cutoff_min_loop(_, _, _, _, _, _, _, _, _, _, _)
cutoff_max(asp, state, alpha, beta, cutoff, depth, eval_func, player) ==
  IF is_terminal_state(asp, state) THEN cutoff_terminal(asp, state, player)
  ELSE IF depth = cutoff THEN eval_func_call(eval_func, state)
  ELSE cutoff_max_loop(asp, state, get_available_actions(asp, state), -Inf,
                       alpha, beta, cutoff, depth, eval_func, player, NoTrace)

cutoff_max_loop(asp, state, acts, v0, alpha, beta, cutoff, depth, eval_func, player, tr0) ==
  IF acts = << >> THEN Return(state, v0, tr0)
  ELSE LET r == cutoff_min(asp, transition(asp, state, Head(acts)), alpha,
                           beta, cutoff, depth + 1, eval_func, player)
           v == Max(v0, r.v)
           tr == Join(tr0, r.tr)
       IN IF v >= beta THEN Return(state, v, tr)
          ELSE cutoff_max_loop(asp, state, Tail(acts), v, Max(alpha, v), beta,
                               cutoff, depth, eval_func, player, tr)

\* variant of cutoff_min: the depth test before the terminal test
cutoff_min_cut_first(asp, state, alpha, beta, cutoff, depth, eval_func, player) ==
  IF at_cutoff(depth, cutoff) THEN eval_func_call(eval_func, state)
  ELSE IF is_terminal_state(asp, state)
       THEN cutoff_terminal(asp, state, player)
  ELSE cutoff_min_loop(asp, state, get_available_actions(asp, state), Inf,
                       alpha, beta, cutoff, depth, eval_func, player, NoTrace)

cutoff_min(asp, state, alpha, beta, cutoff, depth, eval_func, player) ==
  IF is_terminal_state(asp, state) THEN cutoff_terminal(asp, state, player)
  ELSE IF at_cutoff(depth, cutoff) THEN eval_func_call(eval_func, state)
  ELSE cutoff_min_loop(asp, state, get_available_actions(asp, state), Inf,
                       alpha, beta, cutoff, depth, eval_func, player, NoTrace)

cutoff_min_loop(asp, state, acts, v0, alpha, beta, cutoff, depth, eval_func, player, tr0) ==
  IF acts = << >> THEN Return(state, v0, tr0)
  ELSE LET r == cutoff_max(asp, transition(asp, state, Head(acts)), alpha,
                           beta, cutoff, depth + 1, eval_func, player)
           v == Min(v0, r.v)
           tr == Join(tr0, r.tr)
       IN IF v <= alpha THEN Return(state, v, tr)
          ELSE cutoff_min_loop(asp, state, Tail(acts), v, alpha, Min(beta, v),
                               cutoff, depth, eval_func, player, tr)

RECURSIVE alpha_beta_cutoff_loop(_, _, _, _, _, _, _, _, _, _, _)
alpha_beta_cutoff_loop(asp, start_state, acts, action0, result0, alpha, beta, cutoff_ply, eval_func, player, tr0) ==
  IF acts = << >> THEN [action |-> action0, tr |-> tr0]
  ELSE LET a == Head(acts)
           r == cutoff_min(asp, transition(asp, start_state, a), alpha, beta,
                           cutoff_ply, 1, eval_func, player)
           value == r.v
           better == value > result0
           result == IF better THEN value ELSE result0
           action == IF better THEN a ELSE action0
           tr == Join(tr0, r.tr)
       IN IF value >= beta THEN [action |-> action, tr |-> tr]
          ELSE alpha_beta_cutoff_loop(asp, start_state, Tail(acts), action,
                                      result, Max(alpha, value), beta,
                                      cutoff_ply, eval_func, player, tr)

alpha_beta_cutoff(asp, cutoff_ply, eval_func) ==
  LET start_state == get_start_state(asp)
      player == player_to_move(start_state)
  IN alpha_beta_cutoff_loop(asp, start_state,
                            get_available_actions(asp, start_state),
                            None, -Inf, -Inf, Inf, cutoff_ply, eval_func,
                            player, NoTrace)

\* --------------------------------------------------------- general_minimax
general_terminal(asp, state, player) ==
  Return(state, evaluate_state(asp, state)[player],
         [NoTrace EXCEPT !.term = {state.path}])

\* variant: general_min maximizes as general_max does
general_min_combine_max(v, w) == Max(v, w)
\* v = min(v, ...) of general_min
general_min_combine(v, w) == Min(v, w)

\* variant: a later equal value replaces the best
general_better_or_equal(s, maximum) == s >= maximum
\* the root's test s > maximum
general_better(s, maximum) == s > maximum

RECURSIVE general_max(_, _, _), general_min(_, _, _),
          general_max_loop(_, _, _, _, _, _),
          general_min_loop(_, _, _, _, _, _)
general_max(state, player, asp) ==
  IF is_terminal_state(asp, state) THEN general_terminal(asp, state, player)
  ELSE general_max_loop(state, player, asp,
                        get_available_actions(asp, state), -Inf, NoTrace)

general_max_loop(state, player, asp, acts, v, tr) ==
  IF acts = << >> THEN Return(state, v, tr)
  ELSE LET opposite == transition(asp, state, Head(acts))
           r == IF player_to_move(opposite) = player
                THEN general_max(opposite, player, asp)
                ELSE general_min(opposite, player, asp)
       IN general_max_loop(state, player, asp, Tail(acts), Max(v, r.v),
                           Join(tr, r.tr))

general_min(state, player, asp) ==
  IF is_terminal_state(asp, state) THEN general_terminal(asp, state, player)
  ELSE general_min_loop(state, player, asp,
                        get_available_actions(asp, state), Inf, NoTrace)

general_min_loop(state, player, asp, acts, v, tr) ==
  IF acts = << >> THEN Return(state, v, tr)
  ELSE LET opposite == transition(asp, state, Head(acts))
           r == IF player_to_move(opposite) = player
                THEN general_max(opposite, player, asp)
                ELSE general_min(opposite, player, asp)
       IN general_min_loop(state, player, asp, Tail(acts),
                           general_min_combine(v, r.v), Join(tr, r.tr))

RECURSIVE general_minimax_loop(_, _, _, _, _, _, _)
general_minimax_loop(asp, start_state, player, acts, max_action, maximum, tr) ==
  IF acts = << >> THEN [action |-> max_action, tr |-> tr]
  ELSE LET action == Head(acts)
           opposite == transition(asp, start_state, action)
           r == IF player_to_move(opposite) = player
                THEN general_max(opposite, player, asp)
                ELSE general_min(opposite, player, asp)
           s == r.v
       IN general_minimax_loop(asp, start_state, player, Tail(acts),
                               IF general_better(s, maximum)
                               THEN action ELSE max_action,
                               IF general_better(s, maximum)
                               THEN s ELSE maximum,
                               Join(tr, r.tr))

general_minimax(asp) ==
  LET start_state == get_start_state(asp)
      player == player_to_move(start_state)
  IN general_minimax_loop(asp, start_state, player,
                          get_available_actions(asp, start_state),
                          None, -Inf, NoTrace)

\* ------------------------------------------------------- the state machine
\* asp: the problem; call: the entry point last called and its cutoff_ply;
\* ret: the action it returned and the trace of its interface calls.
VARIABLES asp, call, ret
vars == <<asp, call, ret>>

Init ==
  /\ \/ IsGame(asp, AltTable, MaxNodes, TRUE)
     \/ asp = ExampleGame
  /\ call = [fn |-> "none", cutoff_ply |-> 0]
  /\ ret = [action |-> None, tr |-> NoTrace]

\* Top-level calls are independent and keep no state: a behaviour is one
\* call of one entry point on the problem.
CallMinimax ==
  /\ call.fn = "none"
  /\ call' = [fn |-> "minimax", cutoff_ply |-> 0]
  /\ ret' = minimax(asp)
  /\ UNCHANGED asp

CallAlphaBeta ==
  /\ call.fn = "none"
  /\ call' = [fn |-> "alpha_beta", cutoff_ply |-> 0]
  /\ ret' = alpha_beta(asp)
  /\ UNCHANGED asp

CallAlphaBetaCutoff ==
  \E cutoff_ply \in 1 .. MaxCutoff, eval_func \in [States(asp) -> EvalVals] :
    /\ call.fn = "none"
    /\ call' = [fn |-> "alpha_beta_cutoff", cutoff_ply |-> cutoff_ply]
    /\ ret' = alpha_beta_cutoff(asp, cutoff_ply, eval_func)
    /\ UNCHANGED asp

CallGeneralMinimax ==
  /\ call.fn = "none"
  /\ call' = [fn |-> "general_minimax", cutoff_ply |-> 0]
  /\ ret' = general_minimax(asp)
  /\ UNCHANGED asp

Next ==
  \/ CallMinimax
  \/ CallAlphaBeta
  \/ CallAlphaBetaCutoff
  \/ CallGeneralMinimax

Spec == Init /\ [][Next]_vars

\* minimax and alpha_beta on larger games.
InitS ==
  /\ \/ IsGame(asp, SearchTable, MaxSearchNodes, TRUE)
     \/ asp = ExampleGame
  /\ call = [fn |-> "none", cutoff_ply |-> 0]
  /\ ret = [action |-> None, tr |-> NoTrace]

NextS ==
  \/ CallMinimax
  \/ CallAlphaBeta

SpecS == InitS /\ [][NextS]_vars

\* minimax and general_minimax on games with an arbitrary turn order.
InitG ==
  /\ IsGame(asp, GenTable, MaxGenNodes, FALSE)
  /\ call = [fn |-> "none", cutoff_ply |-> 0]
  /\ ret = [action |-> None, tr |-> NoTrace]

NextG ==
  \/ CallMinimax
  \/ CallGeneralMinimax

SpecG == InitG /\ [][NextG]_vars

\* ============================================================ properties
SetMax(vs) == CHOOSE v \in vs : \A w \in vs : w <= v
SetMin(vs) == CHOOSE v \in vs : \A w \in vs : v <= w

RootActions == 1 .. Len(asp.kids)
RootPlayer == asp.player
Visited(tr) == {e[1] : e \in tr.vals}
ValAt(tr, path) == (CHOOSE e \in tr.vals : e[1] = path)[2]

RECURSIVE BackedUp(_, _, _)
\* The backed-up value of position t for player p: terminal positions are
\* worth p's reward, the others the largest (maxNode) or smallest value of
\* their children, max and min alternating by depth.
BackedUp(t, maxNode, p) ==
  IF t.terminal THEN t.reward[p]
  ELSE LET vs == {BackedUp(t.kids[i], ~maxNode, p) : i \in 1 .. Len(t.kids)}
       IN IF maxNode THEN SetMax(vs) ELSE SetMin(vs)

RootValue(a) == BackedUp(asp.kids[a], FALSE, RootPlayer)

\* The first root action of maximal backed-up value, None without actions.
FirstBest ==
  IF RootActions = {} THEN None
  ELSE CHOOSE a \in RootActions :
         /\ \A b \in RootActions : RootValue(b) <= RootValue(a)
         /\ \A b \in RootActions : b < a => RootValue(b) < RootValue(a)

RootTie ==
  \E a, b \in RootActions :
    a < b /\ RootValue(a) = RootValue(b) /\ RootValue(a) = RootValue(FirstBest)

RECURSIVE Alternating(_)
\* the player to move changes at every transition
Alternating(t) ==
  \A i \in 1 .. Len(t.kids) :
    t.kids[i].player # t.player /\ Alternating(t.kids[i])

\* ---- C1: alpha_beta returns the same root action as minimax, ties
\* included, and the value it backed up for that action is minimax's.
C1_AlphaBetaSameAction ==
  call.fn = "alpha_beta" =>
    LET m == minimax(asp)
    IN /\ ret.action = m.action
       /\ ret.action # None =>
            ValAt(ret.tr, <<ret.action>>) = ValAt(m.tr, <<ret.action>>)

\* alpha_beta pruned something on a game whose best root value is shared
C1_Witness ==
  /\ call.fn = "alpha_beta"
  /\ RootTie
  /\ Visited(ret.tr) # Visited(minimax(asp).tr)
  /\ ret.action = minimax(asp).action

\* ---- C2: minimax returns the first action, in enumeration order, whose
\* backed-up value (min/max alternating, terminals scored for the player to
\* move at the start) is maximal; on the scenario tree the first action.
C2_MinimaxFirstBest ==
  call.fn = "minimax" =>
    /\ ret.action = FirstBest
    /\ \A path \in ret.tr.term :
         ValAt(ret.tr, path) = NodeAt(asp, path).reward[RootPlayer]
    /\ asp = ExampleGame => ret.action = 1

\* a tie at the root, and a terminal whose mover's reward is not the root
\* player's
C2_Witness ==
  /\ call.fn = "minimax"
  /\ RootTie
  /\ ret.action = FirstBest
  /\ \E path \in ret.tr.term :
       LET n == NodeAt(asp, path)
       IN n.reward[n.player] # n.reward[RootPlayer]

\* ---- C3: alpha_beta calls evaluate_state at most as often as minimax, and
\* on the scenario tree fewer than 4 times, never on the leaf worth 9.
C3_AlphaBetaFewerEvaluations ==
  call.fn = "alpha_beta" =>
    /\ Cardinality(ret.tr.term) <= Cardinality(minimax(asp).tr.term)
    /\ asp = ExampleGame =>
         Cardinality(ret.tr.term) < 4 /\ <<2, 2>> \notin ret.tr.term

C3_Witness ==
  /\ call.fn = "alpha_beta"
  /\ asp = ExampleGame
  /\ ret.tr.term = {<<1, 1>>, <<1, 2>>, <<2, 1>>}

\* ---- C4 as stated: eval_func is called only at depth cutoff_ply, no
\* deeper state is reached, and with cutoff_ply = 1 it is called on exactly
\* the states that result from the root's first move.
C4_Original ==
  call.fn = "alpha_beta_cutoff" =>
    /\ \A path \in ret.tr.heur : Len(path) = call.cutoff_ply
    /\ \A path \in Visited(ret.tr) : Len(path) <= call.cutoff_ply
    /\ call.cutoff_ply = 1 => ret.tr.heur = {<<a>> : a \in RootActions}

\* ---- C4 amended: ... with cutoff_ply = 1 it is called on exactly the
\* non-terminal states that result from the root's first move.
C4_EvalOnlyAtCutoff ==
  call.fn = "alpha_beta_cutoff" =>
    /\ \A path \in ret.tr.heur : Len(path) = call.cutoff_ply
    /\ \A path \in Visited(ret.tr) : Len(path) <= call.cutoff_ply
    /\ call.cutoff_ply = 1 =>
         ret.tr.heur = {<<a>> : a \in {b \in RootActions :
                                         ~asp.kids[b].terminal}}

\* the search stopped at ply 2 of a deeper game
C4_Witness ==
  /\ call.fn = "alpha_beta_cutoff"
  /\ call.cutoff_ply = 2
  /\ Height(asp) > 2
  /\ \E path \in ret.tr.heur : Len(path) = 2 /\ Height(NodeAt(asp, path)) > 0

\* ---- C5: in the cutoff search a terminal state is worth the root
\* player's reward from evaluate_state, also at depth cutoff_ply, and
\* eval_func is never called on a terminal state.
C5_TerminalBeforeCutoff ==
  call.fn = "alpha_beta_cutoff" =>
    /\ \A path \in ret.tr.heur : ~NodeAt(asp, path).terminal
    /\ \A path \in Visited(ret.tr) :
         NodeAt(asp, path).terminal =>
           /\ path \in ret.tr.term
           /\ ValAt(ret.tr, path) = NodeAt(asp, path).reward[RootPlayer]

C5_Witness ==
  /\ call.fn = "alpha_beta_cutoff"
  /\ \E path \in ret.tr.term :
       Len(path) = call.cutoff_ply /\ NodeAt(asp, path).terminal

\* ---- C6 as stated: general_minimax returns the action minimax returns on
\* every two-player constant-sum game, whatever the turn order.
C6_Original ==
  call.fn = "general_minimax" => ret.action = minimax(asp).action

\* ---- C6 amended: ... on every two-player constant-sum game in which the
\* players alternate.
C6_GeneralSameOnAlternating ==
  (call.fn = "general_minimax" /\ Alternating(asp)) =>
    ret.action = minimax(asp).action

C6_Witness ==
  /\ call.fn = "general_minimax"
  /\ Alternating(asp)
  /\ Height(asp) >= 3
  /\ Len(asp.kids) >= 2
  /\ ret.action = minimax(asp).action
  /\ ret.action = 2

\* ---- C7 as stated: general_max and general_min both return, for a
\* non-terminal state, the maximum of the values of its children.
C7_Original ==
  call.fn = "general_minimax" =>
    \A path \in Visited(ret.tr) :
      LET n == NodeAt(asp, path)
      IN ~n.terminal =>
           ValAt(ret.tr, path) =
             SetMax({ValAt(ret.tr, Append(path, a)) : a \in 1 .. Len(n.kids)})

\* ---- C7 amended: general_max (called where the root player moves)
\* returns the maximum of the values of the children, general_min (called
\* where another player moves) the minimum.
C7_GeneralMaxAndMin ==
  call.fn = "general_minimax" =>
    \A path \in Visited(ret.tr) :
      LET n == NodeAt(asp, path)
          vs == {ValAt(ret.tr, Append(path, a)) : a \in 1 .. Len(n.kids)}
      IN ~n.terminal =>
           ValAt(ret.tr, path) =
             IF n.player = RootPlayer THEN SetMax(vs) ELSE SetMin(vs)

\* general_min was called on a state whose children differ in value
C7_Witness ==
  /\ call.fn = "general_minimax"
  /\ \E path \in Visited(ret.tr) :
       LET n == NodeAt(asp, path)
           vs == {ValAt(ret.tr, Append(path, a)) : a \in 1 .. Len(n.kids)}
       IN /\ ~n.terminal /\ n.player # RootPlayer
          /\ Cardinality(vs) > 1
          /\ ValAt(ret.tr, path) = SetMin(vs)

\* ---- C8: with no action available in the start state every entry point
\* returns None and calls neither transition, evaluate_state nor eval_func.
C8_NoActionReturnsNone ==
  (call.fn # "none" /\ RootActions = {}) =>
    ret.action = None /\ ret.tr = NoTrace

C8_Witness ==
  /\ call.fn = "minimax"
  /\ RootActions = {}
  /\ ret.action = None

\* ---- C9: with at least one action available in the start state every
\* entry point returns one of the start state's actions.
C9_ReturnsAvailableAction ==
  (call.fn # "none" /\ RootActions # {}) => ret.action \in RootActions

C9_Witness ==
  /\ call.fn = "alpha_beta_cutoff"
  /\ Len(asp.kids) >= 2
  /\ ret.tr.heur # {}
  /\ ret.action \in RootActions

\* ---- C10: with cutoff_ply greater than the longest path to a terminal
\* state, alpha_beta_cutoff never calls eval_func, returns alpha_beta's
\* action, and returns alpha_beta's value on every state it visits.
C10_DeepCutoffIsAlphaBeta ==
  (call.fn = "alpha_beta_cutoff" /\ call.cutoff_ply > Height(asp)) =>
    LET ab == alpha_beta(asp)
    IN /\ ret.tr.heur = {}
       /\ ret.action = ab.action
       /\ ret.tr = ab.tr

C10_Witness ==
  /\ call.fn = "alpha_beta_cutoff"
  /\ Height(asp) = 2
  /\ call.cutoff_ply = 3
  /\ Len(asp.kids) >= 2
  /\ ret.action = alpha_beta(asp).action
====
